---- MODULE Spec2Model ----
(***************************************************************************)
(* Model of the green paths graph codec (common/igraph.py) and of the      *)
(* noise exposure cost model (gp_server/app/noise_exposures.py).           *)
(*                                                                         *)
(* Numbers.  Lengths, exposures and edge costs are exact decimals counted  *)
(* in units of 0.0001; cost coefficients are counted in units of 0.001;    *)
(* sensitivities in units of 0.1.  round(x, k) is modelled on the exact    *)
(* decimal value with ties going to the even neighbour; the inputs drawn   *)
(* below are such that no rounding of the model lands on a decimal tie,    *)
(* where the result of the binary floating point code depends on the       *)
(* representation error of its operand.                                    *)
(***************************************************************************)
EXTENDS Integers, Sequences, FiniteSets, TLC

VARIABLES
    orig,      \* the graph the caller built, as it was before the first export
    heap,      \* graph objects: 0 is the caller's graph G, c the copy of call c
    calls,     \* the calls of export_to_graphml: place, arguments, Gc
    files,     \* GraphML files: 0 is a file found on disk, c is written by call c
    imported,  \* the last call of read_graphml: file read and result
    req,       \* a call of a function of noise_exposures.py: its arguments
    res        \* its result

codecVars == <<orig, heap, calls, files, imported>>

noiseVars == <<req, res>>

vars == <<orig, heap, calls, files, imported, req, res>>

----------------------------------------------------------------------------
(* Bounds of the model *)

MaxEntries == 2

MaxDb == 85

MaxVersion == 4

MaxCalls == 2

----------------------------------------------------------------------------
(* Python values held by graph attributes, and their text forms.           *)
(* A value is [t: its type, n: its numbers, s: its text]; floats are       *)
(* counted in tenths, a dict is the sequence k1, v1, k2, v2, ... of its    *)
(* int keys and float values, a geometry the sequence of its coordinates.  *)

PyNone == [t |-> "NoneType", n |-> <<>>, s |-> ""]

PyBool(b) == [t |-> "bool", n |-> <<IF b THEN 1 ELSE 0>>, s |-> ""]

PyInt(i) == [t |-> "int", n |-> <<i>>, s |-> ""]

PyFloat(d) == [t |-> "float", n |-> <<d>>, s |-> ""]

PyStr(s) == [t |-> "str", n |-> <<>>, s |-> s]

PyDict(kv) == [t |-> "dict", n |-> kv, s |-> ""]

PyTuple(a, b) == [t |-> "tuple", n |-> <<a, b>>, s |-> ""]

Point(x, y) == [t |-> "Point", n |-> <<x, y>>, s |-> ""]

LineString(x1, y1, x2, y2) == [t |-> "LineString", n |-> <<x1, y1, x2, y2>>, s |-> ""]

Digit(d) ==
    CASE d = 0 -> "0" [] d = 1 -> "1" [] d = 2 -> "2" [] d = 3 -> "3"
      [] d = 4 -> "4" [] d = 5 -> "5" [] d = 6 -> "6" [] d = 7 -> "7"
      [] d = 8 -> "8" [] d = 9 -> "9"

RECURSIVE NatToStr(_)
NatToStr(i) ==
    IF i < 10 THEN Digit(i) ELSE NatToStr(i \div 10) \o Digit(i % 10)

IntToStr(i) == IF i < 0 THEN "-" \o NatToStr(-i) ELSE NatToStr(i)

\* repr of a float given in tenths: 80 is "8.0"
FloatToStr(d) ==
    IF d < 0 THEN "-" \o NatToStr((-d) \div 10) \o "." \o Digit((-d) % 10)
    ELSE NatToStr(d \div 10) \o "." \o Digit(d % 10)

RECURSIVE DictItemsToStr(_)
DictItemsToStr(kv) ==
    IF kv = <<>> THEN ""
    ELSE IntToStr(kv[1]) \o ": " \o FloatToStr(kv[2])
         \o (IF Len(kv) > 2 THEN ", " ELSE "")
         \o DictItemsToStr(SubSeq(kv, 3, Len(kv)))

\* str(value)
str(value) ==
    CASE value.t = "NoneType" -> "None"
      [] value.t = "bool" -> IF value.n[1] = 1 THEN "True" ELSE "False"
      [] value.t = "int" -> IntToStr(value.n[1])
      [] value.t = "float" -> FloatToStr(value.n[1])
      [] value.t = "str" -> value.s
      [] value.t = "dict" -> "{" \o DictItemsToStr(value.n) \o "}"
      [] value.t = "tuple" ->
            "(" \o IntToStr(value.n[1]) \o ", " \o IntToStr(value.n[2]) \o ")"
      [] value.t = "Point" ->
            "POINT (" \o IntToStr(value.n[1]) \o " " \o IntToStr(value.n[2]) \o ")"
      [] value.t = "LineString" ->
            "LINESTRING (" \o IntToStr(value.n[1]) \o " " \o IntToStr(value.n[2])
            \o ", " \o IntToStr(value.n[3]) \o " " \o IntToStr(value.n[4]) \o ")"

as_string(value) ==
    IF value.t = "bool"
    THEN (IF value.n[1] = 1 THEN "1" ELSE "0")
    ELSE str(value)

----------------------------------------------------------------------------
(* The parsers the converters call.  Each one is the inverse of the text   *)
(* form over the values below and raises on every other text.              *)

MaxInt == 3

MaxTenths == 125

Ints == 0..MaxInt

Floats == {PyFloat(d) : d \in 0..MaxTenths}

DictKeys == {40, 50}

DictVals == {20, 80}

Dicts2 ==
    {PyDict(<<>>)}
    \cup {PyDict(<<k, v>>) : k \in DictKeys, v \in DictVals}
    \cup {PyDict(<<kv[1], kv[2], kv[3], kv[4]>>) :
            kv \in {x \in DictKeys \X DictVals \X DictKeys \X DictVals :
                       x[1] # x[3]}}

Tuples == {PyTuple(a, b) : a \in Ints, b \in Ints}

Geoms ==
    {Point(x, y) : x \in 0..1, y \in 0..1}
    \cup {LineString(0, 0, x, y) : x \in 0..1, y \in 0..1}

\* the Python literals ast.literal_eval reads back from their repr
Literals ==
    {PyNone, PyBool(TRUE), PyBool(FALSE)} \cup {PyInt(i) : i \in Ints}
    \cup Floats \cup Dicts2 \cup Tuples

Raised == [ok |-> FALSE, v |-> PyNone]

Returned(v) == [ok |-> TRUE, v |-> v]

\* the texts read and the value each one gives: <<text, value>>
IntTexts == {<<str(PyInt(i)), PyInt(i)>> : i \in Ints}

FloatTexts ==
    {<<str(PyInt(i)), PyFloat(10 * i)>> : i \in Ints}
    \cup {<<str(v), v>> : v \in Floats}

GeomTexts == {<<str(v), v>> : v \in Geoms}

LiteralTexts == {<<str(v), v>> : v \in Literals}

Parse(text, texts) ==
    IF \E p \in texts : p[1] = text
    THEN Returned((CHOOSE p \in texts : p[1] = text)[2])
    ELSE Raised

\* int(value), float(value), wkt.loads(value), ast.literal_eval(value)
int(text) == Parse(text, IntTexts)

float(text) == Parse(text, FloatTexts)

wkt_loads(text) == Parse(text, GeomTexts)

literal_eval(text) == Parse(text, LiteralTexts)

----------------------------------------------------------------------------
(* igraph.py: converters of attribute values read as text *)

to_str(value) ==
    IF value.s # "None" THEN Returned(PyStr(str(value))) ELSE Returned(PyNone)

to_int(value) ==
    IF value.s # "None" THEN int(value.s) ELSE Returned(PyNone)

to_float(value) ==
    IF value.s # "None" THEN float(value.s) ELSE Returned(PyNone)

to_geom(value) == wkt_loads(value.s)

to_bool(value) ==
    IF Len(value.s) = 1 THEN Returned(PyBool(value.s = "1"))
    ELSE literal_eval(value.s)

to_dict(value) ==
    IF value.s # "None" THEN literal_eval(value.s) ELSE Returned(PyNone)

to_tuple(value) ==
    IF value.s # "None" THEN literal_eval(value.s) ELSE Returned(PyNone)

Convert(converter, value) ==
    CASE converter = "to_str" -> to_str(value)
      [] converter = "to_int" -> to_int(value)
      [] converter = "to_float" -> to_float(value)
      [] converter = "to_geom" -> to_geom(value)
      [] converter = "to_bool" -> to_bool(value)
      [] converter = "to_dict" -> to_dict(value)
      [] converter = "to_tuple" -> to_tuple(value)

\* the enums: <<name, value>> of each member, in definition order
Node ==
    << <<"id_ig", "ii">>, <<"id_otp", "io">>, <<"name_otp", "no">>,
       <<"geometry", "geom">>, <<"geom_wgs", "geom_wgs">>,
       <<"traversable_walking", "b_tw">>, <<"traversable_biking", "b_tb">>,
       <<"traffic_light", "tl">> >>

Edge ==
    << <<"id_ig", "ii">>, <<"id_otp", "io">>, <<"id_way", "iw">>, <<"uv", "uv">>,
       <<"name_otp", "no">>, <<"geometry", "geom">>, <<"geom_wgs", "geom_wgs">>,
       <<"length", "l">>, <<"bike_time_cost", "c_bt">>,
       <<"bike_safety_cost", "c_bs">>, <<"edge_class", "ec">>,
       <<"street_class", "sc">>, <<"is_stairs", "b_st">>,
       <<"is_no_thru_traffic", "b_ntt">>, <<"allows_walking", "b_aw">>,
       <<"allows_biking", "b_ab">>, <<"traversable_walking", "b_tw">>,
       <<"traversable_biking", "b_tb">>, <<"bike_safety_factor", "bsf">>,
       <<"noises", "n">>, <<"noise_source", "ns">>, <<"noise_sources", "nss">>,
       <<"aqi", "aqi">>, <<"gvi_gsv", "g_gsv">>, <<"gvi_low_veg_share", "g_lv">>,
       <<"gvi_high_veg_share", "g_hv">>, <<"gvi_comb_gsv_veg", "g_gsv_v">>,
       <<"gvi_comb_gsv_high_veg", "g_gsv_hv">>, <<"gvi", "g">> >>

Names(enum) == {enum[i][1] : i \in 1..Len(enum)}

Values(enum) == {enum[i][2] : i \in 1..Len(enum)}

\* attr.value of the member called name, and the member whose value is value
ValueOf(enum, name) ==
    enum[CHOOSE i \in 1..Len(enum) : enum[i][1] = name][2]

NameOf(enum, value) ==
    enum[CHOOSE i \in 1..Len(enum) : enum[i][2] = value][1]

\* the converter dicts: <<member name, converter>>
value_converter_by_edge_attribute ==
    << <<"id_ig", "to_int">>, <<"id_otp", "to_str">>, <<"id_way", "to_int">>,
       <<"uv", "to_tuple">>, <<"name_otp", "to_str">>, <<"geometry", "to_geom">>,
       <<"geom_wgs", "to_geom">>, <<"length", "to_float">>,
       <<"bike_time_cost", "to_float">>, <<"bike_safety_cost", "to_float">>,
       <<"edge_class", "to_str">>, <<"street_class", "to_str">>,
       <<"is_stairs", "to_bool">>, <<"is_no_thru_traffic", "to_bool">>,
       <<"allows_walking", "to_bool">>, <<"allows_biking", "to_bool">>,
       <<"traversable_walking", "to_bool">>, <<"traversable_biking", "to_bool">>,
       <<"bike_safety_factor", "to_float">>, <<"noises", "to_dict">>,
       <<"noise_source", "to_str">>, <<"noise_sources", "to_dict">>,
       <<"aqi", "to_float">>, <<"gvi_gsv", "to_float">>,
       <<"gvi_low_veg_share", "to_float">>, <<"gvi_high_veg_share", "to_float">>,
       <<"gvi_comb_gsv_veg", "to_float">>, <<"gvi_comb_gsv_high_veg", "to_float">>,
       <<"gvi", "to_float">> >>

\* the node converters with the one of the last member of Node left out
value_converter_without_traffic_light ==
    << <<"id_ig", "to_int">>, <<"id_otp", "to_str">>, <<"name_otp", "to_str">>,
       <<"geometry", "to_geom">>, <<"geom_wgs", "to_geom">>,
       <<"traversable_walking", "to_bool">>, <<"traversable_biking", "to_bool">> >>

value_converter_by_node_attribute ==
    << <<"id_ig", "to_int">>, <<"id_otp", "to_str">>, <<"name_otp", "to_str">>,
       <<"geometry", "to_geom">>, <<"geom_wgs", "to_geom">>,
       <<"traversable_walking", "to_bool">>, <<"traversable_biking", "to_bool">>,
       <<"traffic_light", "to_bool">> >>

----------------------------------------------------------------------------
(* Graphs: nv vertices and ne edges, and for each kind the attributes, a   *)
(* function from attribute name to the list of the elements' values.       *)

NoAttrs == [a \in {} |-> <<>>]

NoGraph == [nv |-> 0, ne |-> 0, vs |-> NoAttrs, es |-> NoAttrs]

\* the attribute k of every element set to values; del(G.vs[k])
SetAttr(attrs, k, values) ==
    [a \in DOMAIN attrs \cup {k} |-> IF a = k THEN values ELSE attrs[a]]

DelAttr(attrs, k) == [a \in DOMAIN attrs \ {k} |-> attrs[a]]

\* [as_string(value) for value in list(Gc.vs[attr.value])]
Encoded(values) == [i \in 1..Len(values) |-> PyStr(as_string(values[i]))]

\* export of one kind of element keeping the attributes outside the registry
\* that were not asked for
export_attrs_keeping_unknown(enum, count, Gc_attrs, G_names, attrs) ==
    IF attrs = {}
    THEN IF count = 0
         THEN [ok |-> FALSE, attrs |-> Gc_attrs]
         ELSE [ok |-> TRUE,
               attrs |-> [a \in DOMAIN Gc_attrs |->
                            IF a \in Values(enum) THEN Encoded(Gc_attrs[a])
                            ELSE Gc_attrs[a]]]
    ELSE LET values == {ValueOf(enum, name) : name \in attrs}
         IN  IF \E v \in values : v \notin DOMAIN Gc_attrs
             THEN [ok |-> FALSE, attrs |-> Gc_attrs]
             ELSE [ok |-> TRUE,
                   attrs |-> [a \in DOMAIN Gc_attrs
                                      \ ((G_names \cap Values(enum)) \ values) |->
                                IF a \in values THEN Encoded(Gc_attrs[a])
                                ELSE Gc_attrs[a]]]

\* export_to_graphml, the part for one kind of element (enum is Node or Edge):
\* count elements with attributes Gc_attrs on the working copy, G_names the
\* attribute names of the graph given, attrs the members asked for
export_attrs(enum, count, Gc_attrs, G_names, attrs) ==
    IF attrs = {}
    THEN IF count = 0
         \* Gc.vs[0] raises IndexError
         THEN [ok |-> FALSE, attrs |-> Gc_attrs]
         ELSE [ok |-> TRUE,
               attrs |-> [a \in DOMAIN Gc_attrs |->
                            IF a \in Values(enum) THEN Encoded(Gc_attrs[a])
                            ELSE Gc_attrs[a]]]
    ELSE LET values == {ValueOf(enum, name) : name \in attrs}
         IN  IF \E v \in values : v \notin DOMAIN Gc_attrs
             \* Gc.vs[attr.value] raises KeyError
             THEN [ok |-> FALSE, attrs |-> Gc_attrs]
             ELSE [ok |-> TRUE,
                   \* delete unspecified attributes
                   attrs |-> [a \in DOMAIN Gc_attrs \ (G_names \ values) |->
                                IF a \in values THEN Encoded(Gc_attrs[a])
                                ELSE Gc_attrs[a]]]

\* G.copy() gives a new graph object: the one of the call
alias_of_graph(G, call) == G

copy_of_graph(G, call) == call

\* Gc.save(graph_file, format='graphml'): the file holds the working copy
save(Gc) == Gc

\* ig.Graph.Read_GraphML(graph_file): the id of the file's node elements
\* is read as the vertex attribute 'id'
Read_GraphML(file) ==
    [file EXCEPT !.vs = SetAttr(file.vs, "id",
                                [i \in 1..file.nv |-> PyStr("n" \o IntToStr(i - 1))])]

HasKey(dict, key) == \E i \in 1..Len(dict) : dict[i][1] = key

Get(dict, key) == dict[CHOOSE i \in 1..Len(dict) : dict[i][1] = key][2]

\* a conversion that keeps the text of the values it cannot convert
convert_column_value_by_value(converter, values) ==
    LET converted == [i \in 1..Len(values) |-> Convert(converter, values[i])]
    IN  [ok |-> \A i \in 1..Len(values) : converted[i].ok,
         values |-> [i \in 1..Len(values) |->
                       IF converted[i].ok THEN converted[i].v ELSE values[i]]]

\* [converter(value) for value in list(G.vs[attr])]: raises if one call raises
convert_column(converter, values) ==
    LET converted == [i \in 1..Len(values) |-> Convert(converter, values[i])]
    IN  IF \A i \in 1..Len(values) : converted[i].ok
        THEN [ok |-> TRUE, values |-> [i \in 1..Len(values) |-> converted[i].v]]
        ELSE [ok |-> FALSE, values |-> values]

\* the try block of read_graphml for the attribute attr of one kind
decode_attr(enum, converters, attr, values) ==
    IF attr \notin Values(enum)
    \* Node(attr) raises ValueError
    THEN [ok |-> FALSE, values |-> values]
    ELSE IF ~HasKey(converters, NameOf(enum, attr))
    THEN [ok |-> FALSE, values |-> values]
    ELSE convert_column(Get(converters, NameOf(enum, attr)), values)

\* read_graphml: status, graph returned and attributes warned about
read_graphml(graph_file) ==
    LET G0 == Read_GraphML(graph_file)
        G  == [G0 EXCEPT !.vs = DelAttr(G0.vs, "id")]
        vs == [a \in DOMAIN G.vs |->
                 decode_attr(Node, value_converter_by_node_attribute, a, G.vs[a])]
        es == [a \in DOMAIN G.es |->
                 decode_attr(Edge, value_converter_by_edge_attribute, a, G.es[a])]
    IN  IF G.nv = 0 \/ G.ne = 0
        \* G.vs[0] or G.es[0] raises IndexError
        THEN [status |-> "IndexError", G |-> NoGraph,
              failed_nodes |-> {}, failed_edges |-> {}]
        ELSE [status |-> "ok",
              G |-> [G EXCEPT !.vs = [a \in DOMAIN G.vs |-> vs[a].values],
                              !.es = [a \in DOMAIN G.es |-> es[a].values]],
              failed_nodes |-> {a \in DOMAIN G.vs : ~vs[a].ok},
              failed_edges |-> {a \in DOMAIN G.es : ~es[a].ok}]

----------------------------------------------------------------------------
(* Graphs and files the codec is run on *)

\* two nodes and two edges; the second edge has the geometry geom2
SourceGraph(geom2) ==
    [nv |-> 2, ne |-> 2,
     vs |-> [a \in {"ii", "geom", "b_tw", "tl", "x"} |->
               CASE a = "ii" -> <<PyInt(0), PyInt(1)>>
                 [] a = "geom" -> <<Point(0, 0), Point(1, 1)>>
                 [] a = "b_tw" -> <<PyBool(TRUE), PyBool(FALSE)>>
                 [] a = "tl" -> <<PyNone, PyBool(TRUE)>>
                 [] a = "x" -> <<PyStr("a"), PyStr("b")>>],
     es |-> [a \in {"ii", "uv", "geom", "l", "b_st", "n", "no", "y"} |->
               CASE a = "ii" -> <<PyInt(0), PyInt(1)>>
                 [] a = "uv" -> <<PyTuple(0, 1), PyTuple(1, 0)>>
                 [] a = "geom" -> <<LineString(0, 0, 1, 1), geom2>>
                 [] a = "l" -> <<PyFloat(125), PyNone>>
                 [] a = "b_st" -> <<PyBool(FALSE), PyNone>>
                 [] a = "n" -> <<PyDict(<<50, 80, 40, 20>>), PyDict(<<>>)>>
                 [] a = "no" -> <<PyStr("main st"), PyNone>>
                 [] a = "y" -> <<PyStr("q"), PyStr("r")>>]]

SourceGraphs == {SourceGraph(PyNone), SourceGraph(LineString(0, 0, 1, 0))}

Texts(seq) == [i \in 1..Len(seq) |-> PyStr(seq[i])]

\* a file written elsewhere: a key outside the registry for each kind, and a
\* value that its converter cannot read under a key for each kind
ExtFile(bad) ==
    [nv |-> 2, ne |-> 2,
     vs |-> [a \in {"ii", "geom", "b_tb", "zz"} |->
               CASE a = "ii" -> Texts(<<"0", "1">>)
                 [] a = "geom" -> Texts(<<"POINT (0 0)", bad>>)
                 [] a = "b_tb" -> Texts(<<"1", "False">>)
                 [] a = "zz" -> Texts(<<"0", "1">>)],
     es |-> [a \in {"iw", "l", "n", "zz"} |->
               CASE a = "iw" -> Texts(<<"3", "None">>)
                 [] a = "l" -> Texts(<<"12.5", bad>>)
                 [] a = "n" -> Texts(<<"{50: 8.0}", "None">>)
                 [] a = "zz" -> Texts(<<"0", "1">>)]]

ExtFiles == {ExtFile("abc")}

\* the n_attrs and e_attrs given to export_to_graphml (member names)
\* (id_otp is not an attribute of the graphs above)
ExportArgs ==
    {<<{}, {}>>,
     <<{"id_ig", "traversable_walking"}, {"geometry", "length"}>>,
     <<{}, {"id_ig", "uv", "is_stairs", "noises", "name_otp"}>>,
     <<{"id_ig", "id_otp"}, {}>>}

SourceRef == 0

NotCalled == [pc |-> "start", n_attrs |-> {}, e_attrs |-> {}, Gc |-> SourceRef]

NotImported ==
    [from |-> MaxCalls + 1, status |-> "none", G |-> NoGraph,
     failed_nodes |-> {}, failed_edges |-> {}]

----------------------------------------------------------------------------
(* The codec: calls of export_to_graphml on the caller's graph, each in    *)
(* four steps that interleave with the steps of the other calls, and calls *)
(* of read_graphml on the files.                                           *)

Idle == [op |-> "none"]

Init ==
    /\ orig \in SourceGraphs
    /\ heap = [r \in 0..MaxCalls |-> IF r = SourceRef THEN orig ELSE NoGraph]
    /\ calls = [c \in 1..MaxCalls |-> NotCalled]
    /\ files \in {[f \in 0..MaxCalls |-> IF f = 0 THEN ext ELSE NoGraph] :
                    ext \in ExtFiles}
    /\ imported = NotImported
    /\ req = Idle
    /\ res = [status |-> "pending", values |-> <<>>]

\* Gc = G.copy(); calls are numbered in the order they start
ExportCopy(c, n_attrs, e_attrs) ==
    /\ calls[c].pc = "start"
    /\ c > 1 => calls[c - 1].pc # "start"
    /\ LET Gc == copy_of_graph(SourceRef, c)
       IN  /\ heap' = [heap EXCEPT ![Gc] = heap[SourceRef]]
           /\ calls' = [calls EXCEPT ![c] = [pc |-> "nodes", n_attrs |-> n_attrs,
                                             e_attrs |-> e_attrs, Gc |-> Gc]]
    /\ UNCHANGED <<orig, files, imported, noiseVars>>

\* the node attributes of the working copy
ExportNodes(c) ==
    /\ calls[c].pc = "nodes"
    /\ LET Gc == calls[c].Gc
           r  == export_attrs(Node, heap[Gc].nv, heap[Gc].vs,
                              DOMAIN heap[SourceRef].vs, calls[c].n_attrs)
       IN  IF r.ok
           THEN /\ heap' = [heap EXCEPT ![Gc].vs = r.attrs]
                /\ calls' = [calls EXCEPT ![c].pc = "edges"]
           ELSE /\ calls' = [calls EXCEPT ![c].pc = "failed"]
                /\ UNCHANGED heap
    /\ UNCHANGED <<orig, files, imported, noiseVars>>

\* the edge attributes of the working copy
ExportEdges(c) ==
    /\ calls[c].pc = "edges"
    /\ LET Gc == calls[c].Gc
           r  == export_attrs(Edge, heap[Gc].ne, heap[Gc].es,
                              DOMAIN heap[SourceRef].es, calls[c].e_attrs)
       IN  IF r.ok
           THEN /\ heap' = [heap EXCEPT ![Gc].es = r.attrs]
                /\ calls' = [calls EXCEPT ![c].pc = "save"]
           ELSE /\ calls' = [calls EXCEPT ![c].pc = "failed"]
                /\ UNCHANGED heap
    /\ UNCHANGED <<orig, files, imported, noiseVars>>

\* Gc.save(graph_file, format='graphml')
ExportSave(c) ==
    /\ calls[c].pc = "save"
    /\ files' = [files EXCEPT ![c] = save(heap[calls[c].Gc])]
    /\ calls' = [calls EXCEPT ![c].pc = "done"]
    /\ UNCHANGED <<orig, heap, imported, noiseVars>>

\* read_graphml(graph_file) on a file that exists
Import(f) ==
    /\ files[f] # NoGraph
    /\ LET r == read_graphml(files[f])
       IN  imported' = [from |-> f, status |-> r.status, G |-> r.G,
                        failed_nodes |-> r.failed_nodes,
                        failed_edges |-> r.failed_edges]
    /\ UNCHANGED <<orig, heap, calls, files, noiseVars>>

Next ==
    \/ \E c \in 1..MaxCalls, args \in ExportArgs :
          ExportCopy(c, args[1], args[2])
    \/ \E c \in 1..MaxCalls : ExportNodes(c)
    \/ \E c \in 1..MaxCalls : ExportEdges(c)
    \/ \E c \in 1..MaxCalls : ExportSave(c)
    \/ \E f \in 0..MaxCalls : Import(f)

Spec == Init /\ [][Next]_vars

----------------------------------------------------------------------------
(* Claims on the codec *)

Started(c) == calls[c].pc # "start"

\* C1: export never mutates the caller's graph: after any interleaving of
\* export calls on the same graph, with or without attribute subsets, the
\* graph's nodes, edges, attribute names and values are what they were before
\* the first call, and each call encodes and deletes on a working copy of its
\* own.
C1_ExportLeavesGraphUnchanged ==
    /\ heap[SourceRef] = orig
    /\ \A c \in 1..MaxCalls : Started(c) =>
          /\ calls[c].Gc # SourceRef
          /\ \A d \in 1..MaxCalls \ {c} : Started(d) => calls[d].Gc # calls[c].Gc

C1_Witness ==
    /\ calls[1].pc = "edges"
    /\ calls[1].n_attrs = {"id_ig", "traversable_walking"}
    /\ calls[2].pc = "done"
    /\ calls[2].n_attrs = {}
    /\ DOMAIN heap[calls[1].Gc].vs = {"ii", "b_tw"}
    /\ DOMAIN heap[calls[2].Gc].vs = DOMAIN orig.vs
    /\ heap[calls[2].Gc].vs # orig.vs
    /\ heap[SourceRef] = orig

\* the attributes asked for (all those of the registry found on the data if
\* none is asked for), as attribute names of the graph
Requested(enum, attrs, present) ==
    IF attrs = {} THEN present \cap Values(enum)
    ELSE {ValueOf(enum, name) : name \in attrs}

RoundTrips(enum, attrs, before, after) ==
    /\ \A k \in Requested(enum, attrs, DOMAIN before) :
          k \in DOMAIN after /\ after[k] = before[k]
    /\ attrs # {} => DOMAIN after = Requested(enum, attrs, DOMAIN before)

\* C2: import(export(G, subset)) gives a graph in which every element carries
\* exactly the attributes of the subset with their original typed values, for
\* every value type of the registry, null values included.
C2_RoundTrip ==
    (imported.from \in 1..MaxCalls /\ imported.status # "none") =>
        /\ imported.status = "ok"
        /\ RoundTrips(Node, calls[imported.from].n_attrs, orig.vs, imported.G.vs)
        /\ RoundTrips(Edge, calls[imported.from].e_attrs, orig.es, imported.G.es)

\* the wire string of a value: "1" or "0" for a boolean, else its text
WireString(value) ==
    IF value = PyBool(TRUE) THEN "1"
    ELSE IF value = PyBool(FALSE) THEN "0"
    ELSE str(value)

ExactlyEncoded(enum, attrs, before, after) ==
    attrs # {} =>
        /\ DOMAIN after = {ValueOf(enum, name) : name \in attrs}
        /\ \A k \in DOMAIN after :
              /\ Len(after[k]) = Len(before[k])
              /\ \A i \in 1..Len(after[k]) :
                    after[k][i] = PyStr(WireString(before[k][i]))

\* C3: when a subset is given for a kind, the attribute names of that kind on
\* the serialized working copy are exactly the wire keys of the subset, each
\* value encoded to its wire string (booleans as "1" and "0"), and every other
\* attribute, registered or not, is removed.
C3_SubsetExportedExactly ==
    \A c \in 1..MaxCalls :
        /\ calls[c].pc \in {"save", "done"} =>
              /\ ExactlyEncoded(Node, calls[c].n_attrs, orig.vs, heap[calls[c].Gc].vs)
              /\ ExactlyEncoded(Edge, calls[c].e_attrs, orig.es, heap[calls[c].Gc].es)
        /\ calls[c].pc = "done" =>
              /\ ExactlyEncoded(Node, calls[c].n_attrs, orig.vs, files[c].vs)
              /\ ExactlyEncoded(Edge, calls[c].e_attrs, orig.es, files[c].es)

C3_Witness ==
    /\ calls[1].pc = "done"
    /\ calls[1].n_attrs = {"id_ig", "traversable_walking"}
    /\ calls[1].e_attrs = {"geometry", "length"}
    /\ {"x", "tl", "geom"} \subseteq DOMAIN orig.vs
    /\ DOMAIN files[1].vs = {"ii", "b_tw"}
    /\ files[1].vs["b_tw"] = <<PyStr("1"), PyStr("0")>>
    /\ DOMAIN files[1].es = {"geom", "l"}
    /\ files[1].es["l"] = <<PyStr("12.5"), PyStr("None")>>

Recognized(enum, converters, k) ==
    k \in Values(enum) /\ HasKey(converters, NameOf(enum, k))

Decodes(enum, converters, k, values) ==
    \A i \in 1..Len(values) :
        Convert(Get(converters, NameOf(enum, k)), values[i]).ok

DecodedOf(enum, converters, k, values) ==
    [i \in 1..Len(values) |->
        Convert(Get(converters, NameOf(enum, k)), values[i]).v]

UnknownDropped(enum, converters, wire, after) ==
    \A k \in DOMAIN wire :
        /\ ~Recognized(enum, converters, k) => k \notin DOMAIN after
        /\ (Recognized(enum, converters, k) /\ Decodes(enum, converters, k, wire[k])) =>
              k \in DOMAIN after /\ after[k] = DecodedOf(enum, converters, k, wire[k])

\* C4: a wire key found on the data that the registry does not recognize is
\* dropped for the whole collection: after import no element carries it, the
\* import is not aborted, and the recognized attributes are still decoded.
C4_UnknownKeyDropped ==
    imported.status # "none" =>
        /\ imported.status = "ok"
        /\ UnknownDropped(Node, value_converter_by_node_attribute,
                          files[imported.from].vs, imported.G.vs)
        /\ UnknownDropped(Edge, value_converter_by_edge_attribute,
                          files[imported.from].es, imported.G.es)

AtomicPerKey(enum, converters, wire, after) ==
    \A k \in DOMAIN wire :
        Recognized(enum, converters, k) =>
            /\ k \in DOMAIN after
            /\ IF Decodes(enum, converters, k, wire[k])
                 THEN after[k] = DecodedOf(enum, converters, k, wire[k])
                 ELSE after[k] = wire[k]

\* C5: a decode failure on a single value of a recognized key aborts only that
\* key's conversion: after import every value of the key is decoded or every
\* value of the key is still its wire string, the import does not fail, and
\* the other keys of the collection are converted as without the failure.
C5_DecodeFailureAtomicPerKey ==
    imported.status # "none" =>
        /\ imported.status = "ok"
        /\ AtomicPerKey(Node, value_converter_by_node_attribute,
                        files[imported.from].vs, imported.G.vs)
        /\ AtomicPerKey(Edge, value_converter_by_edge_attribute,
                        files[imported.from].es, imported.G.es)

C5_Witness ==
    /\ imported.from = 0
    /\ imported.status = "ok"
    /\ files[0].es["l"] = <<PyStr("12.5"), PyStr("abc")>>
    /\ imported.G.es["l"] = <<PyStr("12.5"), PyStr("abc")>>
    /\ imported.G.es["n"] = <<PyDict(<<50, 80>>), PyNone>>
    /\ imported.G.es["iw"] = <<PyInt(3), PyNone>>
    /\ imported.G.vs["geom"] = <<PyStr("POINT (0 0)"), PyStr("abc")>>
    /\ imported.G.vs["b_tb"] = <<PyBool(TRUE), PyBool(FALSE)>>
    /\ imported.failed_edges = {"l", "zz"}

WireKeysDistinct(enum) ==
    \A i, j \in 1..Len(enum) : i # j => enum[i][2] # enum[j][2]

\* the members whose wire key is their own name
NamedByWireKey(enum) ==
    {enum[i][1] : i \in {j \in 1..Len(enum) : enum[j][2] = enum[j][1]}}

Converters == {"to_str", "to_int", "to_float", "to_geom", "to_bool", "to_dict", "to_tuple"}

EveryMemberDecodes(enum, converters) ==
    \A name \in Names(enum) :
        HasKey(converters, name) /\ Get(converters, name) \in Converters

\* the registered keys of the files written by export that are the names of
\* their members
WrittenUnderName(enum, kind) ==
    {k \in Values(enum) :
        /\ NameOf(enum, k) = k
        /\ \E c \in 1..MaxCalls :
              files[c] # NoGraph /\ k \in DOMAIN files[c][kind]}

----------------------------------------------------------------------------
(* Python values used by the noise cost model *)

\* a dict of dB -> exposure is an insertion-ordered sequence of <<dB, length>>
NoneMap == [isNone |-> TRUE, items |-> <<>>]

Dict(items) == [isNone |-> FALSE, items |-> items]

NoneNum == [isNone |-> TRUE, v |-> 0]

Num(v) == [isNone |-> FALSE, v |-> v]

Keys(items) == {items[i][1] : i \in 1..Len(items)}

RECURSIVE SumValues(_)
SumValues(items) ==
    IF items = <<>> THEN 0 ELSE items[1][2] + SumValues(Tail(items))

Abs(x) == IF x < 0 THEN -x ELSE x

\* round(n / d) to the nearest integer, ties to even (d > 0)
round_div(n, d) ==
    LET q == n \div d
        r == n % d
    IN  IF 2 * r < d THEN q
        ELSE IF 2 * r > d THEN q + 1
        ELSE IF q % 2 = 0 THEN q ELSE q + 1

\* round(x, 3) and round(x, 2) of a length x in units of 0.0001
Round3(x) == round_div(x, 10) * 10

Round2(x) == round_div(x, 100) * 100

\* round(a * b / 10^6) without forming the product a * b (a, b >= 0)
round_muldiv(a, b) ==
    LET p    == (a \div 1000) * b
        rest == (p % 1000) * 1000 + (a % 1000) * b
        q    == (p \div 1000) + (rest \div 1000000)
        r    == rest % 1000000
    IN  IF 2 * r < 1000000 THEN q
        ELSE IF 2 * r > 1000000 THEN q + 1
        ELSE IF q % 2 = 0 THEN q ELSE q + 1

----------------------------------------------------------------------------
(* noise_exposures.py *)

\* calc_db_cost_v2 without its threshold at 44 dB
calc_db_cost_v2_no_threshold(db) ==
    round_div((db - 40) * 1000, 75 - 40)

\* cost coefficient of a dB on the linear scale, in units of 0.001
calc_db_cost_v2(db) ==
    IF db <= 44 THEN 0
    ELSE round_div((db - 40) * 1000, 75 - 40)

\* pow(10, (0.3 * db) / 10) for db = 40..79, in units of 0.0001, truncated
Pow10Table ==
    <<158489, 169824, 181970, 194984, 208929, 223872, 239883, 257039,
      275422, 295120, 316227, 338844, 363078, 389045, 416869, 446683,
      478630, 512861, 549540, 588843, 630957, 676082, 724435, 776247,
      831763, 891250, 954992, 1023292, 1096478, 1174897, 1258925, 1348962,
      1445439, 1548816, 1659586, 1778279, 1905460, 2041737, 2187761, 2344228>>

\* cost coefficient of a dB on the doubling scale, in units of 0.001
calc_db_cost_v3(db) ==
    IF db <= 44 THEN 0
    ELSE round_div(Pow10Table[db - 39], 1000)

NoTable == [db \in {} |-> 0]

get_db_costs(version) ==
    LET dbs == 40..79
    IN  IF version = 2
        THEN [status |-> "ok", table |-> [db \in dbs |-> calc_db_cost_v2(db)]]
        ELSE IF version = 3
        THEN [status |-> "ok", table |-> [db \in dbs |-> calc_db_cost_v3(db)]]
        ELSE [status |-> "ValueError", table |-> NoTable]

RECURSIVE DbDistanceCost(_, _)
DbDistanceCost(items, db_costs) ==
    IF items = <<>> THEN 0
    ELSE db_costs[items[1][1]] * items[1][2]
         + DbDistanceCost(Tail(items), db_costs)

\* noise cost coefficient in units of 0.001
get_noise_cost_coeff(noises, db_costs) ==
    IF noises.isNone \/ noises.items = <<>>
    THEN [status |-> "ok", value |-> 0]
    ELSE IF \E db \in Keys(noises.items) : db \notin DOMAIN db_costs
    THEN [status |-> "KeyError", value |-> 0]
    ELSE LET db_distance_cost == DbDistanceCost(noises.items, db_costs)
             total_length == SumValues(noises.items)
         IN  [status |-> "ok",
              value  |-> IF total_length # 0
                         THEN round_div(db_distance_cost, total_length)
                         ELSE 0]

\* get_noise_range with strict comparisons at the range limits
get_noise_range_strict(db) ==
    IF db > 70 THEN 70
    ELSE IF db > 65 THEN 65
    ELSE IF db > 60 THEN 60
    ELSE IF db > 55 THEN 55
    ELSE IF db > 50 THEN 50
    ELSE 40

get_noise_range(db) ==
    IF db >= 70 THEN 70
    ELSE IF db >= 65 THEN 65
    ELSE IF db >= 60 THEN 60
    ELSE IF db >= 55 THEN 55
    ELSE IF db >= 50 THEN 50
    ELSE 40

\* db_range_lens[k] += exp on an insertion-ordered defaultdict(float)
AddTo(lens, k, exp) ==
    IF k \in Keys(lens)
    THEN [i \in 1..Len(lens) |->
            IF lens[i][1] = k THEN <<k, lens[i][2] + exp>> ELSE lens[i]]
    ELSE Append(lens, <<k, exp>>)

RECURSIVE RangeLens(_, _)
RangeLens(items, lens) ==
    IF items = <<>> THEN lens
    ELSE RangeLens(Tail(items),
                   AddTo(lens, get_noise_range(items[1][1]), items[1][2]))

get_noise_range_exps(noises, total_length) ==
    LET db_range_lens == RangeLens(noises.items, <<>>)
    IN  Dict([i \in 1..Len(db_range_lens) |->
                <<db_range_lens[i][1], Round3(db_range_lens[i][2])>>])

get_total_noises_len(noises) ==
    IF noises.isNone \/ noises.items = <<>> THEN 0
    ELSE Round3(SumValues(noises.items))

\* sum([(db + 2.5) * length for db, length in noises.items()]), in units of
\* 0.1 dB times 0.0001
RECURSIVE SumDb(_)
SumDb(items) ==
    IF items = <<>> THEN 0
    ELSE (items[1][1] * 10 + 25) * items[1][2] + SumDb(Tail(items))

\* get_mean_noise_level: the level in units of 0.1 dB; noises.items() of None
\* raises AttributeError and the division by a length of 0 ZeroDivisionError
get_mean_noise_level(noises, length) ==
    IF noises.isNone THEN [status |-> "AttributeError", value |-> 0]
    ELSE LET sum_db == SumDb(noises.items)
         IN  IF length = 0 THEN [status |-> "ZeroDivisionError", value |-> 0]
             ELSE [status |-> "ok", value |-> round_div(sum_db, length)]

\* get_noise_adjusted_edge_cost taking the length as base cost in every case
edge_cost_ignoring_bike_time_cost(sensitivity, db_costs, noises, length, bike_time_cost) ==
    IF ~noises.isNone /\ Abs(length - SumValues(noises.items)) > 5000
    THEN [status |-> "ValueError", value |-> 0]
    ELSE IF noises.isNone
    THEN [status |-> "ok",
          value  |-> Round2(length + (length * 100 * sensitivity) \div 10)]
    ELSE LET noise_cost_coeff == get_noise_cost_coeff(noises, db_costs)
         IN  IF noise_cost_coeff.status # "ok"
             THEN [status |-> noise_cost_coeff.status, value |-> 0]
             ELSE [status |-> "ok",
                   value  |-> round_muldiv(
                       length, 10000 + noise_cost_coeff.value * sensitivity)
                       * 100]

\* sensitivity in units of 0.1, db_costs in units of 0.001
get_noise_adjusted_edge_cost(sensitivity, db_costs, noises, length, bike_time_cost) ==
    IF ~noises.isNone /\ Abs(length - SumValues(noises.items)) > 5000
    THEN [status |-> "ValueError", value |-> 0]
    ELSE LET base_cost ==
                 IF ~bike_time_cost.isNone /\ bike_time_cost.v # 0
                 THEN bike_time_cost.v ELSE length
         IN  IF noises.isNone
             THEN [status |-> "ok",
                   value  |-> Round2(base_cost
                                     + (base_cost * 100 * sensitivity) \div 10)]
             ELSE LET noise_cost_coeff == get_noise_cost_coeff(noises, db_costs)
                  IN  IF noise_cost_coeff.status # "ok"
                      THEN [status |-> noise_cost_coeff.status, value |-> 0]
                      ELSE [status |-> "ok",
                            value  |-> round_muldiv(
                                base_cost,
                                10000 + noise_cost_coeff.value * sensitivity)
                                * 100]

\* add_db_40_exp_to_noises putting the 40 dB entry after the other entries
add_db_40_exp_last(noises, length) ==
    IF noises.isNone \/ length = 0 \/ 40 \in Keys(noises.items)
    THEN noises
    ELSE LET db_40_len == Round2(length - get_total_noises_len(noises))
         IN  IF db_40_len # 0
             THEN Dict(Append(noises.items, <<40, db_40_len>>))
             ELSE noises

add_db_40_exp_to_noises(noises, length) ==
    IF noises.isNone \/ length = 0 \/ 40 \in Keys(noises.items)
    THEN noises
    ELSE LET total_db_length ==
                 IF noises.items # <<>> THEN get_total_noises_len(noises) ELSE 0
             db_40_len == Round2(length - total_db_length)
         IN  IF db_40_len # 0
             THEN Dict(<<<<40, db_40_len>>>> \o noises.items)
             ELSE noises

----------------------------------------------------------------------------
(* Inputs of the noise cost model *)

MinDb == MaxDb - 55

MapKeys == {40, 50, 64, 68, MaxDb}

\* exposures of 7.9921, 8.0, 10.0 and 12.0
MapValues == {79921, 80000, 100000, 120000}

\* edge lengths of 0, 0.3333, 10.0, 20.0 and 100.0
Lengths == {0, 3333, 100000, 200000, 1000000}

Sensitivities == {1, 5}

BikeTimeCosts == {NoneNum, Num(0), Num(40000)}

\* the mean lies halfway between two multiples of 0.1 dB: what round(mean_db, 1)
\* gives then depends on the binary value of the quotient, and the case is
\* left out of the inputs
HalfwayMean(noises, length) ==
    /\ ~noises.isNone
    /\ length > 0
    /\ (2 * SumDb(noises.items)) % length = 0
    /\ ((2 * SumDb(noises.items)) \div length) % 2 = 1

Entries == MapKeys \X MapValues

ItemSeqs ==
    UNION {{s \in [1..n -> Entries] :
              \A i, j \in 1..n : i # j => s[i][1] # s[j][1]} : n \in 0..MaxEntries}

Dicts == {Dict(s) : s \in ItemSeqs}

DbCostTables == {get_db_costs(2).table, get_db_costs(3).table, NoTable}

Requests ==
    [op : {"get_db_costs"}, version : 0..MaxVersion]
    \cup [op : {"get_noise_range"}, dbs : (MinDb..MaxDb) \X (MinDb..MaxDb)]
    \cup [op : {"get_noise_range_exps"}, noises : Dicts, length : Lengths]
    \cup [op : {"get_noise_adjusted_edge_cost"}, sensitivity : Sensitivities,
          db_costs : DbCostTables, noises : Dicts \cup {NoneMap},
          length : Lengths, bike_time_cost : BikeTimeCosts]
    \cup [op : {"add_db_40_exp_to_noises"}, noises : Dicts \cup {NoneMap},
          length : Lengths]
    \cup {r \in [op : {"get_mean_noise_level"}, noises : Dicts \cup {NoneMap},
                  length : Lengths] : ~HalfwayMean(r.noises, r.length)}

Pending == [status |-> "pending", values |-> <<>>]

----------------------------------------------------------------------------
(* One call of a function of the noise cost model on the drawn arguments *)

NoiseInit ==
    /\ req \in Requests
    /\ res = Pending
    /\ orig = NoGraph
    /\ heap = [r \in 0..MaxCalls |-> NoGraph]
    /\ calls = [c \in 1..MaxCalls |-> NotCalled]
    /\ files = [f \in 0..MaxCalls |-> NoGraph]
    /\ imported = NotImported

GetDbCosts ==
    /\ req.op = "get_db_costs"
    /\ res.status = "pending"
    /\ res' = get_db_costs(req.version)
    /\ UNCHANGED <<req, codecVars>>

\* two successive calls, on dbs[1] and then on dbs[2]
GetNoiseRange ==
    /\ req.op = "get_noise_range"
    /\ Len(res.values) < 2
    /\ res' = [status |-> IF Len(res.values) = 1 THEN "ok" ELSE "pending",
               values |-> Append(res.values,
                                 get_noise_range(req.dbs[Len(res.values) + 1]))]
    /\ UNCHANGED <<req, codecVars>>

GetNoiseRangeExps ==
    /\ req.op = "get_noise_range_exps"
    /\ res.status = "pending"
    /\ res' = [status |-> "ok",
               value  |-> get_noise_range_exps(req.noises, req.length)]
    /\ UNCHANGED <<req, codecVars>>

GetNoiseAdjustedEdgeCost ==
    /\ req.op = "get_noise_adjusted_edge_cost"
    /\ res.status = "pending"
    /\ res' = get_noise_adjusted_edge_cost(req.sensitivity, req.db_costs,
                   req.noises, req.length, req.bike_time_cost)
    /\ UNCHANGED <<req, codecVars>>

AddDb40ExpToNoises ==
    /\ req.op = "add_db_40_exp_to_noises"
    /\ res.status = "pending"
    /\ res' = [status |-> "ok",
               value  |-> add_db_40_exp_to_noises(req.noises, req.length)]
    /\ UNCHANGED <<req, codecVars>>

GetMeanNoiseLevel ==
    /\ req.op = "get_mean_noise_level"
    /\ res.status = "pending"
    /\ res' = get_mean_noise_level(req.noises, req.length)
    /\ UNCHANGED <<req, codecVars>>

NoiseNext ==
    \/ GetDbCosts
    \/ GetNoiseRange
    \/ GetNoiseRangeExps
    \/ GetNoiseAdjustedEdgeCost
    \/ AddDb40ExpToNoises
    \/ GetMeanNoiseLevel

NoiseSpec == NoiseInit /\ [][NoiseNext]_vars

----------------------------------------------------------------------------
(* Claims on the noise cost model *)

IsEdgeCostResult ==
    req.op = "get_noise_adjusted_edge_cost" /\ res.status # "pending"

\* base = bikeTimeCostOverride if provided and non-zero else length
BaseOf(r) ==
    IF ~r.bike_time_cost.isNone /\ r.bike_time_cost.v # 0
    THEN r.bike_time_cost.v ELSE r.length

\* C6: edgeCost raises the integrity failure if and only if the exposure map
\* is non-null and non-empty and |length - sum(map values)| > 0.5; for a null
\* map and for an empty map it never raises it and returns a cost, which for
\* the empty map is the base cost.
C6_IntegrityFailureIffNonEmptyMismatch ==
    IsEdgeCostResult =>
        /\ (res.status = "ValueError") <=>
               /\ ~req.noises.isNone
               /\ req.noises.items # <<>>
               /\ Abs(req.length - SumValues(req.noises.items)) > 5000
        /\ req.noises.isNone => res.status = "ok"
        /\ (~req.noises.isNone /\ req.noises.items = <<>>) =>
               /\ res.status = "ok"
               /\ res.value = Round2(BaseOf(req))

\* C7: for a null exposure map edgeCost returns base + base * 100 * sensitivity
\* rounded to 2 decimals, base being the bike time cost when it is provided
\* and non-zero and the length otherwise, whatever the cost table holds
\* (sensitivity 0.1, length 100, no bike time cost: 1100.0).
C7_NoDataPenalty ==
    (IsEdgeCostResult /\ req.noises.isNone) =>
        /\ res.status = "ok"
        /\ res.value = Round2(BaseOf(req) + BaseOf(req) * 10 * req.sensitivity)
        /\ (req.sensitivity = 1 /\ req.length = 1000000
              /\ req.bike_time_cost.isNone) => res.value = 11000000

C7_Witness ==
    /\ IsEdgeCostResult
    /\ req.noises.isNone
    /\ req.db_costs = NoTable
    /\ req.bike_time_cost = Num(40000)
    /\ req.length = 3333
    /\ req.sensitivity = 5
    /\ res = [status |-> "ok", value |-> 2040000]

IsGapFillResult ==
    req.op = "add_db_40_exp_to_noises" /\ res.status # "pending"

NoiseRangeLabels == {40, 50, 55, 60, 65, 70}

GreatestLabelBelow(db) ==
    IF db < 50 THEN 40
    ELSE CHOOSE l \in NoiseRangeLabels \ {40} :
             /\ l <= db
             /\ \A k \in NoiseRangeLabels \ {40} : k <= db => k <= l

\* C9: bucket is a total function onto the six labels 40, 50, 55, 60, 65, 70:
\* the greatest label among 50..70 that is <= dB, and 40 below 50; it is
\* non-decreasing in dB, and aggregateBuckets only produces keys among the
\* six labels.
C9_Bucket ==
    /\ req.op = "get_noise_range" =>
          /\ \A i \in 1..Len(res.values) :
                /\ res.values[i] \in NoiseRangeLabels
                /\ res.values[i] = GreatestLabelBelow(req.dbs[i])
                /\ req.dbs[i] = 69 => res.values[i] = 65
                /\ req.dbs[i] = 70 => res.values[i] = 70
                /\ req.dbs[i] = 49 => res.values[i] = 40
                /\ req.dbs[i] = 50 => res.values[i] = 50
          /\ (Len(res.values) = 2 /\ req.dbs[1] <= req.dbs[2]) =>
                res.values[1] <= res.values[2]
          /\ Len(res.values) = 2 =>
                \A l \in NoiseRangeLabels :
                    \E db \in MinDb..MaxDb : get_noise_range(db) = l
    /\ (req.op = "get_noise_range_exps" /\ res.status = "ok") =>
          Keys(res.value.items) \subseteq NoiseRangeLabels

C9_Witness ==
    /\ req.op = "get_noise_range"
    /\ req.dbs = <<69, 70>>
    /\ res.values = <<65, 70>>

\* C10: for version 2 and for version 3 buildCostTable returns a table whose
\* keys are exactly 40..79 and whose values are non-negative, 0 for every dB
\* <= 44 and non-decreasing over 45..79; for any other version it fails with
\* an invalid-argument error and returns no table.
C10_CostTable ==
    (req.op = "get_db_costs" /\ res.status # "pending") =>
        IF req.version \in {2, 3}
        THEN /\ res.status = "ok"
             /\ DOMAIN res.table = 40..79
             /\ \A db \in 40..79 :
                   /\ res.table[db] >= 0
                   /\ db <= 44 => res.table[db] = 0
             /\ \A a, b \in 45..79 : a <= b => res.table[a] <= res.table[b]
        ELSE /\ res.status = "ValueError"
             /\ res.table = NoTable

C10_Witness ==
    /\ req.op = "get_db_costs"
    /\ req.version = 3
    /\ res.status = "ok"
    /\ res.table[44] = 0
    /\ res.table[45] = 224
    /\ res.table[79] = 2344

\* the sum over the entries of (bucket lower bound of dB + 2.5) * len
RECURSIVE SumBucketDb(_)
SumBucketDb(items) ==
    IF items = <<>> THEN 0
    ELSE (GreatestLabelBelow(items[1][1]) * 10 + 25) * items[1][2]
         + SumBucketDb(Tail(items))

\* C12: meanNoiseLevel(map, length) is the sum over the entries (dB, len) of
\* (bucket lower bound of dB + 2.5) * len, divided by length and rounded to 1
\* decimal: an entry contributes the lower bound of its bucket plus 2.5, not
\* its raw key plus 2.5 (an entry at 53 dB contributes 52.5).
C12_MeanOfBucketLevels ==
    (req.op = "get_mean_noise_level" /\ res.status = "ok") =>
        res.value = round_div(SumBucketDb(req.noises.items), req.length)

NonNegative(items) == \A i \in 1..Len(items) : items[i][2] >= 0

\* edgeCost on the map and the length does not raise the integrity failure
NoIntegrityFailure(noises, length) ==
    \A sensitivity \in Sensitivities, db_costs \in DbCostTables,
       bike_time_cost \in BikeTimeCosts :
        get_noise_adjusted_edge_cost(sensitivity, db_costs, noises, length,
                                     bike_time_cost).status # "ValueError"

\* C13: for a map whose values are all non-negative and a length >= 0, every
\* value of gapFill(map, length) is non-negative (the entry inserted under 40
\* is never a negative length, also when the values sum to more than length),
\* and when an entry was inserted, edgeCost on the result and the same length
\* does not raise the integrity failure.
C13_GapFillKeepsValidity ==
    (/\ req.op = "add_db_40_exp_to_noises"
     /\ res.status = "ok"
     /\ ~req.noises.isNone
     /\ NonNegative(req.noises.items)
     /\ req.length >= 0) =>
        /\ NonNegative(res.value.items)
        /\ res.value # req.noises => NoIntegrityFailure(res.value, req.length)

====
